---- MODULE Spec2Model ----
(***************************************************************************)
(* Model of analyze_can_data.py: the row pipeline of decode_can_data, the  *)
(* data-field normaliser, the frame decode call and the output writer.     *)
(*                                                                         *)
(* Texts are sequences of one-character strings, so that strip, replace,   *)
(* startswith, int(), hex() and upper() are computed character by          *)
(* character.  Python's None is the one-element sequence <<"None">>,       *)
(* which no text equals (its element is not a single character).           *)
(* Numbers that Python holds as floats are held in thousandths (milli).    *)
(***************************************************************************)
EXTENDS Integers, Sequences, FiniteSets, TLC

VARIABLES db, header, pc, row_count, skipped_rows, decoded_data, output_file, log

vars == <<db, header, pc, row_count, skipped_rows, decoded_data, output_file, log>>

\* Largest number of rows of one input file.
MaxRows == 2

----------------------------------------------------------------------------
(* Python values and text primitives *)

None == <<"None">>

NoneV == [kind |-> "None", name |-> <<"None">>, milli |-> 0]

Whitespace == {" ", "\t"}

Quote == "\""

DecDigits == <<"0", "1", "2", "3", "4", "5", "6", "7", "8", "9">>

LowerHexDigits == DecDigits \o <<"a", "b", "c", "d", "e", "f">>

UpperHexDigits == DecDigits \o <<"A", "B", "C", "D", "E", "F">>

Range(s) == {s[i] : i \in 1..Len(s)}

\* the value of a hexadecimal digit character, -1 for any other character
HexDigitVal(c) ==
    IF \E i \in 1..16 : LowerHexDigits[i] = c
    THEN (CHOOSE i \in 1..16 : LowerHexDigits[i] = c) - 1
    ELSE IF \E i \in 1..16 : UpperHexDigits[i] = c
    THEN (CHOOSE i \in 1..16 : UpperHexDigits[i] = c) - 1
    ELSE -1

\* str.upper() on one character
UpperChar(c) ==
    IF \E i \in 11..16 : LowerHexDigits[i] = c
    THEN UpperHexDigits[CHOOSE i \in 11..16 : LowerHexDigits[i] = c]
    ELSE IF c = "x" THEN "X" ELSE c

Upper(s) == [i \in 1..Len(s) |-> UpperChar(s[i])]

RECURSIVE LStrip(_)
LStrip(s) ==
    IF s # <<>> /\ Head(s) \in Whitespace THEN LStrip(Tail(s)) ELSE s

RECURSIVE RStrip(_)
RStrip(s) ==
    IF s # <<>> /\ s[Len(s)] \in Whitespace
    THEN RStrip(SubSeq(s, 1, Len(s) - 1))
    ELSE s

\* str.strip()
Strip(s) == RStrip(LStrip(s))

IsNotQuote(c) == c # Quote

\* str.replace('"', '')
RemoveQuotes(s) == SelectSeq(s, IsNotQuote)

IsNotWhitespace(c) == c \notin Whitespace

\* re.sub(r'\s+', '', data)
RemoveWhitespace(s) == SelectSeq(s, IsNotWhitespace)

\* re.sub(r'0x', '', data, flags=re.IGNORECASE): one left-to-right pass over
\* non-overlapping matches
RECURSIVE Remove0x(_)
Remove0x(s) ==
    IF s = <<>> THEN s
    ELSE IF Len(s) >= 2 /\ s[1] = "0" /\ s[2] \in {"x", "X"}
    THEN Remove0x(SubSeq(s, 3, Len(s)))
    ELSE <<Head(s)>> \o Remove0x(Tail(s))

\* str.startswith('0x')
StartsWith0x(s) == Len(s) >= 2 /\ s[1] = "0" /\ s[2] = "x"

RECURSIVE DigitsValue(_, _)
DigitsValue(s, base) ==
    IF s = <<>> THEN 0
    ELSE DigitsValue(SubSeq(s, 1, Len(s) - 1), base) * base + HexDigitVal(s[Len(s)])

IsDigits(s, base) ==
    /\ s # <<>>
    /\ \A i \in 1..Len(s) : HexDigitVal(s[i]) >= 0 /\ HexDigitVal(s[i]) < base

ValueError == [ok |-> FALSE, val |-> 0]

\* int(text, base) for base 10 and 16: surrounding whitespace is ignored, one
\* sign is allowed, base 16 allows one 0x/0X prefix after the sign, and at
\* least one digit must follow (texts here hold no underscore).
ParseInt(s, base) ==
    LET t == Strip(s)
        neg == t # <<>> /\ Head(t) = "-"
        u == IF t # <<>> /\ Head(t) \in {"-", "+"} THEN Tail(t) ELSE t
        d == IF base = 16 /\ Len(u) >= 2 /\ u[1] = "0" /\ u[2] \in {"x", "X"}
             THEN SubSeq(u, 3, Len(u)) ELSE u
    IN IF IsDigits(d, base)
       THEN [ok |-> TRUE, val |-> IF neg THEN 0 - DigitsValue(d, base) ELSE DigitsValue(d, base)]
       ELSE ValueError

RECURSIVE Digits(_, _, _)
Digits(n, base, alphabet) ==
    IF n < base THEN <<alphabet[n + 1]>>
    ELSE Digits(n \div base, base, alphabet) \o <<alphabet[(n % base) + 1]>>

\* hex(n)
Hex(n) ==
    IF n < 0 THEN <<"-", "0", "x">> \o Digits(0 - n, 16, LowerHexDigits)
    ELSE <<"0", "x">> \o Digits(n, 16, LowerHexDigits)

\* text[2:]
DropTwo(s) == SubSeq(s, 3, Len(s))

----------------------------------------------------------------------------
(* normalize_data_field and bytes.fromhex *)

IsHexText(s) == \A i \in 1..Len(s) : HexDigitVal(s[i]) >= 0

\* The text after the strip, the quote removal and the two re.sub calls.
NormalizedText(data) == Remove0x(RemoveWhitespace(RemoveQuotes(Strip(data))))

\* normalize_data_field: ok is FALSE where the function raises ValueError
\* (odd length, or no match of ^[0-9A-Fa-f]+$, which the empty text fails).
normalize_data_field(data) ==
    LET t == NormalizedText(data)
    IN IF Len(t) % 2 # 0 THEN [ok |-> FALSE, text |-> <<>>]
       ELSE IF t = <<>> \/ ~IsHexText(t) THEN [ok |-> FALSE, text |-> <<>>]
       ELSE [ok |-> TRUE, text |-> t]

\* bytes.fromhex on a text of an even number of hex digits: first pair is byte 0
FromHex(t) ==
    [i \in 1..(Len(t) \div 2) |-> HexDigitVal(t[2 * i - 1]) * 16 + HexDigitVal(t[2 * i])]

----------------------------------------------------------------------------
(* The schema object handed to decode_can_data (db.messages) *)

NoChoices == <<>>

HasChoices(signal) == DOMAIN signal.choices # {}

SigRPM ==
    [name |-> <<"R", "P", "M">>, start |-> 0, length |-> 16,
     byte_order |-> "little_endian", is_signed |-> FALSE,
     scale |-> 250, offset |-> 0, choices |-> NoChoices,
     unit |-> <<"r", "p", "m">>]

SigStatus ==
    [name |-> <<"S", "t", "a", "t", "u", "s">>, start |-> 16, length |-> 8,
     byte_order |-> "little_endian", is_signed |-> FALSE,
     scale |-> 1000, offset |-> 0,
     choices |-> (2 :> <<"F", "A", "U", "L", "T">>),
     unit |-> None]

SigTemp ==
    [name |-> <<"T", "e", "m", "p">>, start |-> 31, length |-> 8,
     byte_order |-> "big_endian", is_signed |-> TRUE,
     scale |-> 1000, offset |-> 0 - 40000, choices |-> NoChoices,
     unit |-> <<"C">>]

MsgEngineData ==
    [frame_id |-> 291, name |-> <<"E", "n", "g", "i", "n", "e", "D", "a", "t", "a">>,
     length |-> 4, is_container |-> FALSE,
     signals |-> <<SigRPM, SigStatus, SigTemp>>]

MsgHeartbeat ==
    [frame_id |-> 768, name |-> <<"H", "e", "a", "r", "t", "b", "e", "a", "t">>,
     length |-> 0, is_container |-> FALSE, signals |-> <<>>]

MsgContainer ==
    [frame_id |-> 1024, name |-> <<"P", "d", "u", "s">>,
     length |-> 4, is_container |-> TRUE, signals |-> <<>>]

Schemas == {<<MsgEngineData, MsgHeartbeat, MsgContainer>>, <<>>}

\* for msg in db.messages: if msg.frame_id == can_id: message = msg; break
\* (the position of the first match, 0 when the loop leaves message = None)
FindMessage(messages, can_id) ==
    IF \E i \in 1..Len(messages) : messages[i].frame_id = can_id
    THEN CHOOSE i \in 1..Len(messages) :
            /\ messages[i].frame_id = can_id
            /\ \A j \in 1..(i - 1) : messages[j].frame_id # can_id
    ELSE 0

----------------------------------------------------------------------------
(* message.decode(data_bytes, allow_truncated=True) of the cantools library,
   with its defaults decode_choices=True, scaling=True, allow_excess=True:
   a short payload is padded with 0xFF and the signals that do not end within
   the received bytes are left out of the result; a long payload is cut; the
   values are scaled, or the choice when the raw value has one; a container
   message raises. *)

Pow2(n) == 2 ^ n

\* data padded with 0xFF up to the message length, then cut to it
FitToLength(data, n) ==
    [i \in 1..n |-> IF i <= Len(data) THEN data[i] ELSE 255]

\* bit k counted from the most significant bit of byte 0
NetworkBit(data, k) == (data[(k \div 8) + 1] \div Pow2(7 - (k % 8))) % 2

\* bit p of the payload read as a little-endian integer
LittleBit(data, p) == (data[(p \div 8) + 1] \div Pow2(p % 8)) % 2

\* first bit of the signal in sequential numbering
SequentialStartBit(signal) ==
    IF signal.byte_order = "little_endian" THEN signal.start
    ELSE 8 * (signal.start \div 8) + (7 - (signal.start % 8))

RECURSIVE BigEndianField(_, _, _)
BigEndianField(data, first, n) ==
    IF n = 0 THEN 0
    ELSE BigEndianField(data, first, n - 1) * 2 + NetworkBit(data, first + n - 1)

RECURSIVE LittleEndianField(_, _, _)
LittleEndianField(data, first, n) ==
    IF n = 0 THEN 0
    ELSE LittleEndianField(data, first, n - 1) + LittleBit(data, first + n - 1) * Pow2(n - 1)

\* the unsigned bit field of the signal
ExtractUnsigned(data, signal) ==
    IF signal.byte_order = "little_endian"
    THEN LittleEndianField(data, signal.start, signal.length)
    ELSE BigEndianField(data, SequentialStartBit(signal), signal.length)

\* two's-complement reading of the field when the signal is signed
ExtractRaw(data, signal) ==
    LET u == ExtractUnsigned(data, signal)
    IN IF signal.is_signed /\ u >= Pow2(signal.length - 1)
       THEN u - Pow2(signal.length)
       ELSE u

\* a signal is kept only if its span ends within the bytes received
SignalFits(signal, nbytes) ==
    SequentialStartBit(signal) + signal.length <= 8 * nbytes

\* raw_to_scaled with decode_choices: the choice if the raw value has one,
\* else raw * scale + offset (an int when scale and offset are ints)
RawToScaled(raw, signal) ==
    IF raw \in DOMAIN signal.choices
    THEN [kind |-> "named", name |-> signal.choices[raw], milli |-> raw * 1000]
    ELSE [kind |-> IF signal.scale % 1000 = 0 /\ signal.offset % 1000 = 0
                   THEN "int" ELSE "float",
          name |-> None,
          milli |-> raw * signal.scale + signal.offset]

KeptSignals(message, nbytes) ==
    LET Keep(signal) == nbytes >= message.length \/ SignalFits(signal, nbytes)
    IN SelectSeq(message.signals, Keep)

\* ok is FALSE where decode raises (a container message); items are the
\* (signal name, value) pairs of the returned dict in signal order
MessageDecode(message, data) ==
    IF message.is_container THEN [ok |-> FALSE, items |-> <<>>]
    ELSE LET padded == FitToLength(data, message.length)
             kept == KeptSignals(message, Len(data))
         IN [ok |-> TRUE,
             items |-> [i \in 1..Len(kept) |->
                          [signal |-> kept[i],
                           value |-> RawToScaled(ExtractRaw(padded, kept[i]), kept[i])]]]

----------------------------------------------------------------------------
(* str(), float() and the f"{x:.3f}" format on the decoded values *)

DecText(n) ==
    IF n < 0 THEN <<"-">> \o Digits(0 - n, 10, DecDigits) ELSE Digits(n, 10, DecDigits)

Abs(n) == IF n < 0 THEN 0 - n ELSE n

ThreeDecimals(milli) ==
    LET f == Abs(milli) % 1000
    IN <<DecDigits[(f \div 100) + 1], DecDigits[((f \div 10) % 10) + 1], DecDigits[(f % 10) + 1]>>

RECURSIVE TrimZeros(_)
TrimZeros(s) ==
    IF Len(s) > 1 /\ s[Len(s)] = "0" THEN TrimZeros(SubSeq(s, 1, Len(s) - 1)) ELSE s

SignText(milli) == IF milli < 0 THEN <<"-">> ELSE <<>>

\* repr of a float that is an exact number of thousandths
FloatRepr(milli) ==
    SignText(milli) \o Digits(Abs(milli) \div 1000, 10, DecDigits) \o <<".">>
        \o TrimZeros(ThreeDecimals(milli))

\* f"{x:.3f}"
Format3f(milli) ==
    SignText(milli) \o Digits(Abs(milli) \div 1000, 10, DecDigits) \o <<".">>
        \o ThreeDecimals(milli)

\* str(value) of a value returned by message.decode
Str(value) ==
    IF value.kind = "named" THEN value.name
    ELSE IF value.kind = "int" THEN DecText(value.milli \div 1000)
    ELSE FloatRepr(value.milli)

\* float(value) of a number
Float(value) == [kind |-> "float", name |-> None, milli |-> value.milli]

----------------------------------------------------------------------------
(* decode_can_data: the body of the row loop *)

\* the cleaning without the strip: only the quotes are removed
CleanField_NoStrip(s) == RemoveQuotes(s)

\* row[...].strip().replace('"', '')
CleanField(s) == RemoveQuotes(Strip(s))

\* Python truth value of a text or None
Falsy(x) == x = None \/ x = <<>>

\* int(can_id_str, 16) if can_id_str.startswith('0x') else int(can_id_str)
ParseCanId(can_id_str) ==
    IF StartsWith0x(can_id_str) THEN ParseInt(can_id_str, 16) ELSE ParseInt(can_id_str, 10)

\* f"Unknown_{hex(can_id)[2:].upper()}"
UnknownName(can_id) ==
    <<"U", "n", "k", "n", "o", "w", "n", "_">> \o Upper(DropTwo(Hex(can_id)))

UnknownRecord(timestamp, can_id) ==
    [timestamp |-> timestamp, can_id |-> Hex(can_id),
     message_name |-> UnknownName(can_id),
     signal_name |-> None, raw_value |-> NoneV, physical_value |-> NoneV,
     state |-> None, unit |-> None]

SignalRecord(timestamp, can_id, message, item) ==
    [timestamp |-> timestamp, can_id |-> Hex(can_id),
     message_name |-> message.name,
     signal_name |-> item.signal.name,
     raw_value |-> item.value,
     physical_value |-> IF ~HasChoices(item.signal) THEN Float(item.value) ELSE NoneV,
     state |-> IF HasChoices(item.signal) THEN Str(item.value) ELSE None,
     unit |-> IF Falsy(item.signal.unit) THEN <<>> ELSE item.signal.unit]

FallbackRecord(timestamp, can_id, message) ==
    [timestamp |-> timestamp, can_id |-> Hex(can_id),
     message_name |-> message.name,
     signal_name |-> None, raw_value |-> NoneV, physical_value |-> NoneV,
     state |-> None, unit |-> None]

\* the try block around message.decode and the loop over its items
DecodeSignals(timestamp, can_id, message, data_bytes) ==
    LET decoded_signals == MessageDecode(message, data_bytes)
    IN IF decoded_signals.ok
       THEN [i \in 1..Len(decoded_signals.items) |->
                SignalRecord(timestamp, can_id, message, decoded_signals.items[i])]
       ELSE <<FallbackRecord(timestamp, can_id, message)>>

\* a skip that forgets skipped_rows += 1
Skip_NoCount(row, stage) ==
    [row |-> row, skipped |-> 0, recs |-> <<>>, stage |-> stage,
     can_id |-> 0, data_bytes |-> <<>>]

\* logging.warning(...); skipped_rows += 1; continue
Skip(row, stage) ==
    [row |-> row, skipped |-> 1, recs |-> <<>>, stage |-> stage,
     can_id |-> 0, data_bytes |-> <<>>]

Accept(row, stage, can_id, data_bytes, recs) ==
    [row |-> row, skipped |-> 0, recs |-> recs, stage |-> stage,
     can_id |-> can_id, data_bytes |-> data_bytes]

\* One pass of the loop body for one row of the reader: what it adds to
\* skipped_rows and the records it appends.  A missing timestamp or can_id
\* (None) raises AttributeError at .strip(), caught by the outer except.
ProcessOneRow(messages, row) ==
    IF row.timestamp = None \/ row.can_id = None THEN Skip(row, "error")
    ELSE
    LET timestamp == CleanField(row.timestamp)
        can_id_str == CleanField(row.can_id)
        data == row.data
    IN IF timestamp = <<>> \/ can_id_str = <<>> \/ Falsy(data) THEN Skip(row, "missing")
       ELSE
       LET parsed == ParseCanId(can_id_str)
       IN IF ~parsed.ok THEN Skip(row, "bad_id")
          ELSE
          LET normalized_data == normalize_data_field(data)
          IN IF ~normalized_data.ok THEN Skip(row, "bad_data")
             ELSE
             LET can_id == parsed.val
                 data_bytes == FromHex(normalized_data.text)
                 m == FindMessage(messages, can_id)
             IN IF m = 0
                THEN Accept(row, "unknown", can_id, data_bytes,
                            <<UnknownRecord(timestamp, can_id)>>)
                ELSE Accept(row, "decoded", can_id, data_bytes,
                            DecodeSignals(timestamp, can_id, messages[m], data_bytes))

----------------------------------------------------------------------------
(* save_decoded_data *)

NAText == <<"N", "/", "A">>

OutputHeaders ==
    <<"timestamp", "can_id", "message_name", "signal_name", "raw_value",
      "physical_value", "state", "unit">>

\* the dict handed to writer.writerow, in column order
OutputRow(rec) ==
    <<rec.timestamp,
      rec.can_id,
      rec.message_name,
      IF Falsy(rec.signal_name) THEN NAText ELSE rec.signal_name,
      IF rec.raw_value # NoneV THEN Str(rec.raw_value) ELSE NAText,
      IF rec.physical_value # NoneV THEN Format3f(rec.physical_value.milli) ELSE NAText,
      IF Falsy(rec.state) THEN NAText ELSE rec.state,
      IF Falsy(rec.unit) THEN <<>> ELSE rec.unit>>

save_decoded_data(data) == [i \in 1..Len(data) |-> OutputRow(data[i])]

----------------------------------------------------------------------------
(* Input files: the header and the rows csv.DictReader yields *)

RequiredColumns == {"timestamp", "can_id", "data"}

\* reader.fieldnames; None for a file without a header line
Headers ==
    {<<"timestamp", "can_id", "data">>,
     <<"timestamp", "data">>,
     <<"timestamp", "can_id">>,
     <<"can_id", "data">>,
     <<"data", "id", "timestamp", "note">>,
     None}

TsPlain == <<"1", ".", "5">>

BaseId == <<"0", "x", "1", "2", "3">>

BaseData == <<"E", "8", " ", "0", "3", " ", "0", "2", " ", "F", "0">>

\* timestamp fields: plain, padded, quoted, quotes around a space, empty, missing
Timestamps ==
    {TsPlain,
     <<" ", "1", ".", "5", " ">>,
     <<Quote, "1", ".", "5", Quote>>,
     <<Quote, " ", Quote>>,
     <<>>,
     None}

\* can_id fields
CanIdTexts ==
    {BaseId,
     <<"0", "X", "1", "2", "3">>,
     <<"2", "9", "1">>,
     <<"0", "x", "2", "0", "0">>,
     <<"-", "2", "9", "1">>,
     <<"0", "x", "3", "0", "0">>,
     <<"0", "x", "4", "0", "0">>,
     <<"Z", "Z">>,
     <<Quote, " ", Quote>>,
     <<>>,
     None}

\* data fields: four bytes, three bytes with 0x prefixes, one byte, odd
\* length, non-hex, blank, empty, missing
DataTexts ==
    {BaseData,
     <<"0", "x", "E", "8", " ", "0", "X", "0", "3", " ", "0", "x", "0", "3">>,
     <<"E", "8">>,
     <<"E", "8", "0", "3", "0", "2", "F", "0", "0", "0">>,
     <<"A", "B", " ", "C">>,
     <<"G", "G">>,
     <<" ", " ">>,
     <<>>,
     None}

\* rows that differ from the base row in at most one field
Rows ==
    {[timestamp |-> t, can_id |-> BaseId, data |-> BaseData] : t \in Timestamps}
    \cup {[timestamp |-> TsPlain, can_id |-> c, data |-> BaseData] : c \in CanIdTexts}
    \cup {[timestamp |-> TsPlain, can_id |-> BaseId, data |-> d] : d \in DataTexts}

----------------------------------------------------------------------------
(* State machine: main -> decode_can_data -> save_decoded_data *)

NotWritten == [written |-> FALSE, headers |-> <<>>, lines |-> <<>>]

\* the header check with any() in place of all()
HeaderOk_Any(fieldnames) ==
    fieldnames # None /\ \E col \in RequiredColumns : col \in Range(fieldnames)

\* all(col in reader.fieldnames for col in ['timestamp', 'can_id', 'data']);
\* with fieldnames None the test itself raises, which aborts the same way
HeaderOk(fieldnames) ==
    fieldnames # None /\ \A col \in RequiredColumns : col \in Range(fieldnames)

Init ==
    /\ db \in Schemas
    /\ header \in Headers
    /\ pc = "open"
    /\ row_count = 0
    /\ skipped_rows = 0
    /\ decoded_data = <<>>
    /\ output_file = NotWritten
    /\ log = <<>>

\* open the file, build the reader, check the header
OpenCsv ==
    /\ pc = "open"
    /\ pc' = IF HeaderOk(header) THEN "loop" ELSE "raised"
    /\ UNCHANGED <<db, header, row_count, skipped_rows, decoded_data, output_file, log>>

\* one iteration of the for loop over the reader
ProcessRow ==
    /\ pc = "loop"
    /\ Len(log) < MaxRows
    /\ \E row \in Rows :
        LET out == ProcessOneRow(db, row)
        IN /\ row_count' = row_count + 1
           /\ skipped_rows' = skipped_rows + out.skipped
           /\ decoded_data' = decoded_data \o out.recs
           /\ log' = Append(log, out)
    /\ UNCHANGED <<db, header, pc, output_file>>

\* the reader is exhausted: decode_can_data returns decoded_data
ReturnDecoded ==
    /\ pc = "loop"
    /\ pc' = "returned"
    /\ UNCHANGED <<db, header, row_count, skipped_rows, decoded_data, output_file, log>>

\* main calls save_decoded_data
SaveOutput ==
    /\ pc = "returned"
    /\ output_file' = [written |-> TRUE, headers |-> OutputHeaders,
                       lines |-> save_decoded_data(decoded_data)]
    /\ pc' = "done"
    /\ UNCHANGED <<db, header, row_count, skipped_rows, decoded_data, log>>

\* the error raised by decode_can_data reaches main's except: logged, no save
MainCatch ==
    /\ pc = "raised"
    /\ pc' = "failed"
    /\ UNCHANGED <<db, header, row_count, skipped_rows, decoded_data, output_file, log>>

Next == OpenCsv \/ ProcessRow \/ ReturnDecoded \/ SaveOutput \/ MainCatch

Spec == Init /\ [][Next]_vars

----------------------------------------------------------------------------
(* Properties.  log[i] is the outcome of the i-th row of the file: the row,
   what it added to skipped_rows, the records it appended, the parsed id and
   payload. *)

Entries == 1..Len(log)

\* the row reached the schema lookup (it passed the id and data validation)
Validated(i) == log[i].stage \in {"unknown", "decoded"}

\* the message definition the row's id selects, when there is one
Known(i) == Validated(i) /\ FindMessage(db, log[i].can_id) # 0

MessageOf(i) == db[FindMessage(db, log[i].can_id)]

\* the payload as the decoder reads it for the row's message
PayloadOf(i) == FitToLength(log[i].data_bytes, MessageOf(i).length)

\* message.decode returned (it did not raise)
Decoded(i) == Known(i) /\ ~MessageOf(i).is_container

WithinPayload(i, signal) ==
    \/ Len(log[i].data_bytes) >= MessageOf(i).length
    \/ SequentialStartBit(signal) + signal.length <= 8 * Len(log[i].data_bytes)

SignalNamed(i, name) ==
    MessageOf(i).signals[CHOOSE k \in 1..Len(MessageOf(i).signals) :
                            MessageOf(i).signals[k].name = name]

AllAbsent(rec) ==
    /\ rec.raw_value = NoneV
    /\ rec.physical_value = NoneV
    /\ rec.state = None

\* C1: every row that passes id and data validation appends at least one
\* record to the output.
C1_DecodeNonEmpty ==
    \A i \in Entries : Validated(i) => Len(log[i].recs) >= 1

\* C2: a row whose id is in the schema yields one record per signal of the
\* message, in order; a signal whose span passes the end of the payload has
\* its record with raw_value, physical_value and state absent, the others
\* are populated.
C2_OneRecordPerSignal ==
    \A i \in Entries : Decoded(i) =>
        /\ Len(log[i].recs) = Len(MessageOf(i).signals)
        /\ \A k \in 1..Len(log[i].recs) :
            LET rec == log[i].recs[k]
                signal == MessageOf(i).signals[k]
            IN /\ rec.message_name = MessageOf(i).name
               /\ rec.signal_name = signal.name
               /\ IF WithinPayload(i, signal)
                  THEN rec.raw_value # NoneV
                  ELSE AllAbsent(rec)

\* C3: a decoded signal whose raw integer has an entry in the choices table
\* has that label as state and no physical_value; any other decoded signal
\* has physical_value = raw * scale + offset and no state.
C3_ChoiceOrPhysical ==
    \A i \in Entries : Decoded(i) =>
        \A k \in 1..Len(log[i].recs) :
            LET rec == log[i].recs[k]
                signal == SignalNamed(i, rec.signal_name)
                raw == ExtractRaw(PayloadOf(i), signal)
            IN IF raw \in DOMAIN signal.choices
               THEN rec.state = signal.choices[raw] /\ rec.physical_value = NoneV
               ELSE /\ rec.state = None
                    /\ rec.physical_value # NoneV
                    /\ rec.physical_value.milli = raw * signal.scale + signal.offset

\* C4: raw_value of a decoded signal is the integer taken from the payload
\* bits, before scale and offset; it differs from physical_value whenever
\* scale is not 1 or offset is not 0.
C4_RawValueIsRawInteger ==
    \A i \in Entries : Decoded(i) =>
        \A k \in 1..Len(log[i].recs) :
            LET rec == log[i].recs[k]
                signal == SignalNamed(i, rec.signal_name)
                raw == ExtractRaw(PayloadOf(i), signal)
            IN /\ rec.raw_value.kind = "int"
               /\ rec.raw_value.milli = raw * 1000
               /\ (rec.physical_value # NoneV
                   /\ (signal.scale # 1000 \/ signal.offset # 0)
                   /\ raw * signal.scale + signal.offset # raw * 1000)
                  => rec.raw_value.milli # rec.physical_value.milli

PresentText(x) == x # None /\ RemoveQuotes(Strip(x)) # <<>>

\* the id text is 0x or 0X followed by hexadecimal digits only
PrefixedHex(c) ==
    /\ Len(c) >= 3
    /\ c[1] = "0"
    /\ c[2] \in {"x", "X"}
    /\ IsDigits(DropTwo(c), 16)

\* C5: an id text with the prefix 0x in either letter case is parsed as
\* hexadecimal: the row is not skipped and its records carry that frame id.
C5_HexPrefixAnyCase ==
    \A i \in Entries :
        LET row == log[i].row
        IN (/\ PresentText(row.timestamp)
            /\ PresentText(row.can_id)
            /\ row.data # None
            /\ normalize_data_field(row.data).ok
            /\ PrefixedHex(RemoveQuotes(Strip(row.can_id))))
           => /\ log[i].skipped = 0
              /\ log[i].can_id = DigitsValue(DropTwo(RemoveQuotes(Strip(row.can_id))), 16)

EmptyAfterTrim(x) ==
    x = None \/ \A j \in 1..Len(x) : x[j] \in Whitespace \cup {Quote}

\* C7: a row with a field that is empty after trimming whitespace and quotes
\* adds exactly one to the skipped counter and appends no record.
C7_EmptyFieldRejected ==
    \A i \in Entries :
        LET row == log[i].row
        IN (EmptyAfterTrim(row.timestamp) \/ EmptyAfterTrim(row.can_id) \/ EmptyAfterTrim(row.data))
           => log[i].skipped = 1 /\ log[i].recs = <<>>

\* the row passes the presence check and then has an unparseable id or a
\* data text whose normal form has odd length or a non-hex character
RecoverableError(row) ==
    /\ PresentText(row.timestamp)
    /\ PresentText(row.can_id)
    /\ ~Falsy(row.data)
    /\ \/ ~ParseCanId(RemoveQuotes(Strip(row.can_id))).ok
       \/ Len(NormalizedText(row.data)) % 2 # 0
       \/ ~IsHexText(NormalizedText(row.data))

RECURSIVE RecordsUpTo(_)
RecordsUpTo(n) == IF n = 0 THEN <<>> ELSE RecordsUpTo(n - 1) \o log[n].recs

\* C8: a row with a recoverable error adds exactly one to skipped_rows and
\* nothing to the output and never ends the batch; row_count is the number
\* of rows read, and decoded_data holds the records of the other rows in row
\* order.
C8_BatchContinues ==
    /\ row_count = Len(log)
    /\ skipped_rows = Cardinality({i \in Entries : log[i].skipped = 1})
    /\ \A i \in Entries :
        RecoverableError(log[i].row) => log[i].skipped = 1 /\ log[i].recs = <<>>
    /\ \A i \in Entries : \A k \in 1..Len(log[i].recs) :
        /\ ~RecoverableError(log[i].row)
        /\ log[i].recs[k].can_id = Hex(ParseCanId(RemoveQuotes(Strip(log[i].row.can_id))).val)
    /\ decoded_data = RecordsUpTo(Len(log))
    /\ Len(log) > 0 => pc \in {"loop", "returned", "done"}
    /\ pc = "done" => Len(output_file.lines) = Len(decoded_data)

\* a file whose first row has data of odd length and whose second row is
\* decoded, read to the end and saved
C8_Witness ==
    /\ pc = "done"
    /\ Len(log) = 2
    /\ RecoverableError(log[1].row)
    /\ log[1].stage = "bad_data"
    /\ Len(NormalizedText(log[1].row.data)) % 2 = 1
    /\ log[2].stage = "decoded"
    /\ log[2].recs # <<>>
    /\ row_count = 2
    /\ skipped_rows = 1
    /\ decoded_data = log[2].recs

UnknownPrefix == <<"U", "n", "k", "n", "o", "w", "n", "_">>

\* C9: an accepted row whose id is not in the schema appends exactly one
\* record, named Unknown_ followed by the upper-case hexadecimal digits of the
\* id, with signal_name, raw_value, physical_value and state absent.
C9_UnknownRecordName ==
    \A i \in Entries : (Validated(i) /\ ~Known(i)) =>
        /\ Len(log[i].recs) = 1
        /\ LET rec == log[i].recs[1]
               digits == SubSeq(rec.message_name, Len(UnknownPrefix) + 1, Len(rec.message_name))
           IN /\ SubSeq(rec.message_name, 1, Len(UnknownPrefix)) = UnknownPrefix
              /\ digits # <<>>
              /\ Range(digits) \subseteq Range(UpperHexDigits)
              /\ DigitsValue(digits, 16) = log[i].can_id
              /\ rec.signal_name = None
              /\ AllAbsent(rec)

MissingColumn(h) ==
    h = None \/ \E col \in {"timestamp", "can_id", "data"} : \A j \in 1..Len(h) : h[j] # col

\* C10: with a required column missing from the header no row is processed:
\* the run goes from the header check to the raised error, row_count stays 0,
\* no record is produced and no output file is written.
C10_MissingColumnAborts ==
    MissingColumn(header) =>
        /\ pc \in {"open", "raised", "failed"}
        /\ row_count = 0
        /\ skipped_rows = 0
        /\ decoded_data = <<>>
        /\ log = <<>>
        /\ output_file = NotWritten

\* the run has failed in main on a header that lacks can_id only
C10_Witness ==
    /\ pc = "failed"
    /\ header = <<"timestamp", "data">>
    /\ row_count = 0

====
